---- MODULE Spec2Model ----
(***************************************************************************)
(* Product listing page of lab8_nuxt.js.  Three page variants exist in the *)
(* sources:                                                                *)
(*   "paged"    src/src/app/pages/index.vue lines 1-429: progress bar,     *)
(*              manual pagination (currentPage / itemsPerPage / slice);    *)
(*   "plain"    src/src/app/pages/index.vue lines 430-796: progress bar,   *)
(*              the whole list is handed to the table, no pagination;      *)
(*   "tanstack" src/unnamed/part_000: no progress bar, no toast, the       *)
(*              table widget paginates (v-model:pagination).               *)
(* The variant is fixed in the initial state and never changes.            *)
(***************************************************************************)
EXTENDS Integers, Sequences, FiniteSets

VARIABLES
  variant,          \* which page variant is running
  mounted,          \* the page component is mounted (FALSE after teardown)
  data,             \* ref data: [defined, items]; defined = FALSE is `undefined`
  loading,          \* ref loading
  progress,         \* ref progress (integer percent)
  progressInterval, \* ref progressInterval: handle of the last setInterval, 0 = null
  intervals,        \* handles of the intervals still scheduled
  timeouts,         \* number of pending setTimeout(() => loading = false, 500)
  currentPage,      \* ref currentPage ("paged")
  pagination,       \* ref pagination.pageIndex ("tanstack")
  filterValue,      \* the table's filter on column `title` (<<>> = no filter)
  rowSelection,     \* the table's rowSelection: set of row ids (row id = index in :data)
  sorting,          \* the table's sorting state: <<>> or <<[id, desc]>>
  loads,            \* status of each fetchProducts() call, in call order
  startData,        \* per pending load: the list held when it started
  lastResponse,     \* number of the response that resolved last, 0 = none yet
  lastSettled,      \* number of the load that settled last, 0 = none yet
  toasts,           \* number of toast.add() error notifications
  consoleErrors     \* number of console.error() calls

vars == <<variant, mounted, data, loading, progress, progressInterval, intervals,
          timeouts, currentPage, pagination, filterValue, rowSelection, sorting,
          loads, startData, lastResponse, lastSettled, toasts, consoleErrors>>

(***************************************************************************)
(* Bounds of the model.                                                    *)
(***************************************************************************)
MaxLoads == 2        \* fetchProducts() calls, the one of onMounted included

(***************************************************************************)
(* Program constants.                                                      *)
(***************************************************************************)
itemsPerPage == 10   \* ref itemsPerPage / pagination.pageSize
ProgressCap == 95    \* Math.min(..., 95)
ProgressDone == 100  \* progress.value = 100

Variants == {"paged", "plain", "tanstack"}
HasProgress == variant \in {"paged", "plain"}

Min(a, b) == IF a <= b THEN a ELSE b
Max(a, b) == IF a >= b THEN a ELSE b

(***************************************************************************)
(* Products.  A product is identified by its id; its other fields are      *)
(* fixed functions of the id (records are never written by the page).      *)
(* A title is a sequence of characters.                                    *)
(***************************************************************************)
Title(id) ==
  CASE id % 3 = 0 -> <<"A", "b">>
    [] id % 3 = 1 -> <<"b", "a">>
    [] OTHER      -> <<"c">>

\* The `products` arrays the endpoint may answer with.
Full == [i \in 1..25 |-> i]
Short == [i \in 1..itemsPerPage |-> Len(Full) + i]

Arr(s) == [defined |-> TRUE, items |-> s]
Undefined == [defined |-> FALSE, items |-> <<>>]

\* result.products for the JSON bodies the endpoint may answer with; the last
\* one is a body that parses but has no `products` field.
Responses == <<Arr(Full), Arr(Short), Arr(<<>>), Undefined>>

(***************************************************************************)
(* Derived values (Vue computed refs and the table widget's row models).   *)
(***************************************************************************)
CeilDiv(a, b) == (a + b - 1) \div b

\* Array.prototype.slice(start, end) for 0 <= start <= end.
Slice(s, start, end) ==
  IF start >= Len(s) THEN <<>> ELSE SubSeq(s, start + 1, Min(end, Len(s)))

\* computed totalPages (defined only while data is an array).
totalPages == CeilDiv(Len(data.items), itemsPerPage)

\* Mutation: the page number is taken as a zero-based index.
PageSliceZeroBased(s, page) ==
  Slice(s, page * itemsPerPage, page * itemsPerPage + itemsPerPage)

\* computed paginatedData for an arbitrary list and page.
PageSlice(s, page) ==
  Slice(s, (page - 1) * itemsPerPage, (page - 1) * itemsPerPage + itemsPerPage)

paginatedData == PageSlice(data.items, currentPage)

\* The array bound to UTable :data.
TableData == IF variant = "paged" THEN paginatedData ELSE data.items

Lower(c) == IF c = "A" THEN "a" ELSE IF c = "B" THEN "b" ELSE c
LowerAll(t) == [i \in 1..Len(t) |-> Lower(t[i])]

\* String.prototype.includes on character sequences.
Includes(hay, needle) ==
  \E i \in 0..(Len(hay) - Len(needle)) :
    \A k \in 1..Len(needle) : hay[i + k] = needle[k]

\* The table's filter function for the string column `title` (includesString):
\* case-insensitive containment; an empty filter value removes the filter.
TitleMatches(id, f) == f = <<>> \/ Includes(LowerAll(Title(id)), LowerAll(f))

RowIds(s) == [i \in 1..Len(s) |-> i - 1]

\* Row ids (indices into the table's data) that pass the title filter, in order.
FilteredRowIds(s, f) ==
  LET Keep(i) == TitleMatches(s[i + 1], f) IN SelectSeq(RowIds(s), Keep)

\* getFilteredRowModel().rows.length
totalFilteredRows == Len(FilteredRowIds(TableData, filterValue))

\* Sample values of the numeric fields, with ties.
Price(id) == (id * 7) % 11
Rating(id) == id % 5

\* The columns whose header toggles the sorting when clicked.
SortColumns == {"title", "price", "rating"}

CharCode(c) == CASE c = "a" -> 97 [] c = "b" -> 98 [] OTHER -> 99

\* a < b for strings, as sequences of characters.
RECURSIVE TextLess(_, _)
TextLess(a, b) ==
  IF b = <<>> THEN FALSE
  ELSE IF a = <<>> THEN TRUE
  ELSE IF Head(a) = Head(b) THEN TextLess(Tail(a), Tail(b))
  ELSE CharCode(Head(a)) < CharCode(Head(b))

\* The sorting function of a column on two products: lower-cased text for the
\* string column, numeric order for the number columns.
ValueLess(col, x, y) ==
  CASE col = "title" -> TextLess(LowerAll(Title(x)), LowerAll(Title(y)))
    [] col = "price" -> Price(x) < Price(y)
    [] OTHER         -> Rating(x) < Rating(y)

\* Row i is placed before row j by the sorting in force; rows with equal
\* values keep the order of their indices in either direction.
RowBefore(s, i, j) ==
  IF ValueLess(sorting[1].id, s[i + 1], s[j + 1]) THEN ~sorting[1].desc
  ELSE IF ValueLess(sorting[1].id, s[j + 1], s[i + 1]) THEN sorting[1].desc
  ELSE i < j

\* getSortedRowModel(): the filtered rows in the order of the sorting state.
SortedRowIds(s, rows) ==
  IF sorting = <<>> THEN rows
  ELSE LET ids == {rows[n] : n \in 1..Len(rows)}
       IN [k \in 1..Len(rows) |->
             CHOOSE i \in ids :
               Cardinality({j \in ids : RowBefore(s, j, i)}) = k - 1]

\* Row ids of the rows the table displays: filtered, then sorted, then (where
\* the table paginates) sliced.
VisibleRowIds ==
  IF variant = "tanstack"
    THEN Slice(SortedRowIds(TableData, FilteredRowIds(TableData, filterValue)),
               pagination * itemsPerPage, pagination * itemsPerPage + itemsPerPage)
    ELSE SortedRowIds(TableData, FilteredRowIds(TableData, filterValue))

\* Product ids of the rows the table displays, in display order.
VisibleProducts == [k \in 1..Len(VisibleRowIds) |-> TableData[VisibleRowIds[k] + 1]]

Range(s) == {s[i] : i \in 1..Len(s)}

\* Product ids of the rows the table reports as selected.
SelectedProducts ==
  {TableData[i + 1] : i \in rowSelection \cap (0..(Len(TableData) - 1))}

\* The table widget exists only in the v-else branch of v-if="loading".
TableMounted == mounted /\ ~loading

(***************************************************************************)
(* Initial state: setup has run and onMounted has called fetchProducts(),  *)
(* which is suspended at `await fetch(...)`.                               *)
(***************************************************************************)
Init ==
  /\ variant \in Variants
  /\ mounted = TRUE
  /\ data = Arr(<<>>)
  /\ loading = TRUE
  /\ progress = 0
  /\ progressInterval = IF HasProgress THEN 1 ELSE 0
  /\ intervals = IF HasProgress THEN {1} ELSE {}
  /\ timeouts = 0
  /\ currentPage = 1
  /\ pagination = 0
  /\ filterValue = <<>>
  /\ rowSelection = {}
  /\ sorting = <<>>
  /\ loads = <<"pending">>
  /\ startData = [l \in {1} |-> Arr(<<>>)]
  /\ lastResponse = 0
  /\ lastSettled = 0
  /\ toasts = 0
  /\ consoleErrors = 0

Pending == {l \in 1..Len(loads) : loads[l] = "pending"}

\* startData once load l has settled.
Forget(l) == [k \in (DOMAIN startData) \ {l} |-> startData[k]]

\* clearInterval(progressInterval.value) guarded by `if (progressInterval.value)`.
ClearProgressInterval(live) ==
  IF progressInterval # 0 THEN live \ {progressInterval} ELSE live

(***************************************************************************)
(* fetchProducts() up to its first await: the Reload button (reloadData),  *)
(* index.vue 55-65 and 466-479, part_000 33-37.  Setting loading to true   *)
(* replaces the table by the skeleton (v-if / v-else), which discards the  *)
(* table widget together with its filter, row selection and sorting.       *)
(***************************************************************************)
StartLoad ==
  /\ mounted
  /\ Len(loads) < MaxLoads
  /\ loading' = TRUE
  /\ loads' = Append(loads, "pending")
  /\ startData' = [k \in (DOMAIN startData) \cup {Len(loads) + 1} |->
                      IF k \in DOMAIN startData THEN startData[k] ELSE data]
  /\ filterValue' = <<>>
  /\ rowSelection' = {}
  /\ sorting' = <<>>
  /\ progress' = IF HasProgress THEN 0 ELSE progress
  /\ progressInterval' = IF HasProgress THEN Len(loads) + 1 ELSE progressInterval
  /\ intervals' = IF HasProgress THEN intervals \cup {Len(loads) + 1} ELSE intervals
  /\ UNCHANGED <<variant, mounted, data, timeouts, currentPage, pagination,
                 lastResponse, lastSettled, toasts, consoleErrors>>

\* Mutation: a response is stored only if it answers the latest load.
ResolvedDataLatestOnly(l, r) == IF l = Len(loads) THEN Responses[r] ELSE data

\* Mutation: the products of the response are appended to the list held.
ResolvedDataMerged(l, r) ==
  IF data.defined /\ Responses[r].defined
    THEN Arr(data.items \o Responses[r].items)
    ELSE Responses[r]

\* data.value = result.products for response number r of load l.
ResolvedData(l, r) == Responses[r]

\* Mutation: a change of the data leaves the page index as it is.
PageIndexKept == pagination

\* The table widget resets its page index when its data changes while it is
\* displayed; a widget created afterwards starts from the bound pagination ref.
PageIndexAfterData == IF loading THEN pagination ELSE 0

(***************************************************************************)
(* The fetch of load l resolves and its body parses: the rest of the try   *)
(* block and the finally block.                                            *)
(***************************************************************************)
FetchSuccess(l, r) ==
  /\ l \in Pending
  /\ r \in 1..Len(Responses)
  /\ loads' = [loads EXCEPT ![l] = "ok"]
  /\ startData' = Forget(l)
  /\ lastResponse' = r
  /\ lastSettled' = l
  /\ data' = ResolvedData(l, r)
  /\ progress' = IF HasProgress THEN ProgressDone ELSE progress
  /\ timeouts' = IF HasProgress THEN timeouts + 1 ELSE timeouts
  /\ intervals' = IF HasProgress THEN ClearProgressInterval(intervals) ELSE intervals
  /\ loading' = IF HasProgress THEN loading ELSE FALSE
  /\ pagination' = IF HasProgress THEN pagination ELSE PageIndexAfterData
  /\ UNCHANGED <<variant, mounted, progressInterval, currentPage,
                 filterValue, rowSelection, toasts, consoleErrors, sorting>>

\* Mutation: the catch block empties the list.
DataAfterFailureCleared(l) == Arr(<<>>)

\* The list the catch block leaves behind.
DataAfterFailure(l) == data

\* toast.add(...) in the catch block; part_000 has no toast.
ToastsAfterFailure == IF HasProgress THEN toasts + 1 ELSE toasts

(***************************************************************************)
(* The fetch of load l rejects, or response.json() throws: the catch and   *)
(* finally blocks.                                                         *)
(***************************************************************************)
FetchFail(l) ==
  /\ l \in Pending
  /\ loads' = [loads EXCEPT ![l] = "failed"]
  /\ startData' = Forget(l)
  /\ lastSettled' = l
  /\ data' = DataAfterFailure(l)
  /\ consoleErrors' = consoleErrors + 1
  /\ toasts' = ToastsAfterFailure
  /\ loading' = FALSE
  /\ intervals' = IF HasProgress THEN ClearProgressInterval(intervals) ELSE intervals
  /\ UNCHANGED <<variant, mounted, progress, progressInterval, timeouts,
                 currentPage, pagination, filterValue, rowSelection,
                 lastResponse, sorting>>

\* Math.random() * 15, as whole percents.
Increments == {0, 14}

(***************************************************************************)
(* One firing of the setInterval callback with handle i.                   *)
(***************************************************************************)
IntervalTick(i) ==
  /\ i \in intervals
  /\ \E inc \in Increments :
       /\ progress' = Min(progress + inc, ProgressCap)
       /\ intervals' = IF progress' >= ProgressCap
                         THEN ClearProgressInterval(intervals)
                         ELSE intervals
  /\ UNCHANGED <<variant, mounted, data, loading, progressInterval, timeouts,
                 currentPage, pagination, filterValue, rowSelection, loads,
                 startData, lastResponse, lastSettled, toasts, consoleErrors,
                 sorting>>

(***************************************************************************)
(* One firing of setTimeout(() => { loading.value = false }, 500).         *)
(***************************************************************************)
TimeoutFire ==
  /\ timeouts > 0
  /\ timeouts' = timeouts - 1
  /\ loading' = FALSE
  /\ UNCHANGED <<variant, mounted, data, progress, progressInterval,
                 intervals, currentPage, pagination, filterValue,
                 rowSelection, loads, startData, lastResponse, lastSettled,
                 toasts, consoleErrors, sorting>>

Reverse(s) == [i \in 1..Len(s) |-> s[Len(s) + 1 - i]]

\* Mutation: the comparator's answers lose the first element.
ShufflesDropping(s) == IF s = <<>> THEN {s} ELSE {Tail(s)}

\* Orders that [...list].sort(() => Math.random() - 0.5) may produce.
Shuffles(s) == {s, Reverse(s)}

\* [...s].sort(cmp) ending in the order `order`: the spread copies the array,
\* sort reorders the copy and returns it; `source` is the array s afterwards.
SortCopy(s, order) == [source |-> s, result |-> order]

(***************************************************************************)
(* randomize(): the Random button of the index.vue variants.  Spreading    *)
(* `undefined` throws, which leaves the state as it was.                   *)
(***************************************************************************)
Randomize ==
  /\ mounted
  /\ HasProgress
  /\ IF data.defined
       THEN \E s \in Shuffles(data.items) :
              data' = Arr(SortCopy(data.items, s).result)
       ELSE data' = data
  /\ UNCHANGED <<variant, mounted, loading, progress, progressInterval,
                 intervals, timeouts, currentPage, pagination, filterValue,
                 rowSelection, loads, startData, lastResponse, lastSettled,
                 toasts, consoleErrors, sorting>>

\* Mutation: the upper bound of the guard is missing.
ChangePageUnbounded(page) == IF page >= 1 THEN page ELSE currentPage

\* Mutation: the request is clamped into 1..totalPages.
ChangePageClamped(page) ==
  IF totalPages = 0 THEN currentPage ELSE Max(1, Min(page, totalPages))

\* The page changePage(page) leaves as the current one.
ChangePageTarget(page) ==
  IF page >= 1 /\ page <= totalPages THEN page ELSE currentPage

\* Arguments changePage is tried with.
PageRequests == 0..(CeilDiv(Len(Full), itemsPerPage) + 1)

(***************************************************************************)
(* changePage(page).  Reading totalPages while data is `undefined` throws, *)
(* which leaves the state as it was.                                       *)
(***************************************************************************)
ChangePage(page) ==
  /\ mounted
  /\ variant = "paged"
  /\ page \in PageRequests
  /\ currentPage' = IF data.defined THEN ChangePageTarget(page) ELSE currentPage
  /\ UNCHANGED <<variant, mounted, data, loading, progress, progressInterval,
                 intervals, timeouts, pagination, filterValue, rowSelection,
                 loads, startData, lastResponse, lastSettled, toasts,
                 consoleErrors, sorting>>

\* :disabled of the Previous and Next buttons.
PreviousDisabled == currentPage = 1
NextDisabled == currentPage = totalPages

\* A click on the Previous button.
ClickPrevious ==
  /\ data.defined
  /\ ~PreviousDisabled
  /\ ChangePage(currentPage - 1)

\* A click on the Next button.
ClickNext ==
  /\ data.defined
  /\ ~NextDisabled
  /\ ChangePage(currentPage + 1)

\* Pages the UPagination widget offers for the total it is given.
OfferedPages == 1..Max(1, CeilDiv(totalFilteredRows, itemsPerPage))

(***************************************************************************)
(* UPagination @update:page: table.tableApi.setPageIndex(p - 1), which     *)
(* bounds the index from below only.                                       *)
(***************************************************************************)
SetPageIndex(p) ==
  /\ TableMounted
  /\ variant = "tanstack"
  /\ p \in OfferedPages
  /\ pagination' = Max(0, p - 1)
  /\ UNCHANGED <<variant, mounted, data, loading, progress, progressInterval,
                 intervals, timeouts, currentPage, filterValue, rowSelection,
                 loads, startData, lastResponse, lastSettled, toasts,
                 consoleErrors, sorting>>

\* Texts typed into the search box.
FilterInputs == {<<>>, <<"b", "A">>}

(***************************************************************************)
(* UInput @update:model-value: getColumn('title').setFilterValue($event).  *)
(* While loading the table ref is null and the call does nothing.  A table *)
(* that paginates returns to its first page when its filter changes.       *)
(***************************************************************************)
SetFilterValue(f) ==
  /\ TableMounted
  /\ f \in FilterInputs
  /\ filterValue' = f
  /\ pagination' = IF variant = "tanstack" THEN 0 ELSE pagination
  /\ UNCHANGED <<variant, mounted, data, loading, progress, progressInterval,
                 intervals, timeouts, currentPage, rowSelection, loads,
                 startData, lastResponse, lastSettled, toasts, consoleErrors,
                 sorting>>

\* column.getIsSorted(): "asc", "desc" or "false".
getIsSorted(c) ==
  IF sorting # <<>> /\ sorting[1].id = c
    THEN (IF sorting[1].desc THEN "desc" ELSE "asc")
    ELSE "false"

\* column.getAutoSortDir(): "asc" when the value of the column in the first
\* filtered row is a string, "desc" otherwise (a number, or no row at all).
getAutoSortDir(c) ==
  IF c = "title" /\ totalFilteredRows > 0 THEN "asc" ELSE "desc"

\* Mutation: every column starts ascending (sortDescFirst: false).
getFirstSortDirAscending(c) == "asc"

\* column.getFirstSortDir(): no column and no table option sets sortDescFirst.
getFirstSortDir(c) == getAutoSortDir(c)

\* column.getNextSortingOrder(), with sorting removal enabled (the default).
getNextSortingOrder(c) ==
  IF getIsSorted(c) = "false" THEN getFirstSortDir(c)
  ELSE IF getIsSorted(c) # getFirstSortDir(c) THEN "false"
  ELSE IF getIsSorted(c) = "desc" THEN "asc" ELSE "desc"

(***************************************************************************)
(* A click on a sortable header: column.toggleSorting() without multi-sort *)
(* (index.vue 121-169, part_000 24-31).  The headers of the "plain"        *)
(* variant are plain strings and toggle nothing.  A table that paginates   *)
(* returns to its first page when its sorting changes.                     *)
(***************************************************************************)
ToggleSorting(c) ==
  /\ TableMounted
  /\ variant \in {"paged", "tanstack"}
  /\ c \in SortColumns
  /\ sorting' = IF getNextSortingOrder(c) = "false"
                  THEN <<>>
                  ELSE <<[id |-> c, desc |-> getNextSortingOrder(c) = "desc"]>>
  /\ pagination' = IF variant = "tanstack" THEN 0 ELSE pagination
  /\ UNCHANGED <<variant, mounted, data, loading, progress, progressInterval,
                 intervals, timeouts, currentPage, filterValue, rowSelection,
                 loads, startData, lastResponse, lastSettled, toasts,
                 consoleErrors>>

\* rowSelection after table.toggleAllPageRowsSelected(value).
AfterToggleAll(value) ==
  IF value THEN rowSelection \cup Range(VisibleRowIds)
           ELSE rowSelection \ Range(VisibleRowIds)

(***************************************************************************)
(* The header checkbox of the select column (index.vue variants).          *)
(***************************************************************************)
ToggleAllPageRowsSelected(value) ==
  /\ TableMounted
  /\ HasProgress
  /\ rowSelection' = AfterToggleAll(value)
  /\ UNCHANGED <<variant, mounted, data, loading, progress, progressInterval,
                 intervals, timeouts, currentPage, pagination, filterValue,
                 loads, startData, lastResponse, lastSettled, toasts,
                 consoleErrors, sorting>>

\* Row ids whose own checkbox is ticked or unticked.
ToggleRows == {0}

(***************************************************************************)
(* The checkbox of the displayed row with row id i: row.toggleSelected.    *)
(***************************************************************************)
ToggleSelected(i, value) ==
  /\ TableMounted
  /\ HasProgress
  /\ i \in Range(VisibleRowIds)
  /\ i \in ToggleRows
  /\ rowSelection' = IF value THEN rowSelection \cup {i} ELSE rowSelection \ {i}
  /\ UNCHANGED <<variant, mounted, data, loading, progress, progressInterval,
                 intervals, timeouts, currentPage, pagination, filterValue,
                 loads, startData, lastResponse, lastSettled, toasts,
                 consoleErrors, sorting>>

(***************************************************************************)
(* The page component is torn down (navigation away).  No hook of the page *)
(* runs at teardown: nothing is cancelled, pending callbacks still fire.   *)
(***************************************************************************)
Unmount ==
  /\ mounted
  /\ mounted' = FALSE
  /\ UNCHANGED <<variant, data, loading, progress, progressInterval,
                 intervals, timeouts, currentPage, pagination, filterValue,
                 rowSelection, loads, startData, lastResponse, lastSettled,
                 toasts, consoleErrors, sorting>>

\* The load operation and its timers.
LoadStep ==
  \/ StartLoad
  \/ \E l \in 1..MaxLoads, r \in 1..Len(Responses) : FetchSuccess(l, r)
  \/ \E l \in 1..MaxLoads : FetchFail(l)
  \/ TimeoutFire
  \/ Randomize

\* The progress animation and the teardown of the page.
TimerStep ==
  \/ \E i \in 1..MaxLoads : IntervalTick(i)
  \/ Unmount

\* The user's navigation between pages and the search box.
PageStep ==
  \/ \E page \in PageRequests : ChangePage(page)
  \/ ClickPrevious
  \/ ClickNext
  \/ \E p \in 1..(CeilDiv(Len(Full), itemsPerPage)) : SetPageIndex(p)
  \/ \E f \in FilterInputs : SetFilterValue(f)

\* The user's clicks on the selection checkboxes.
SelectStep ==
  \/ \E value \in BOOLEAN : ToggleAllPageRowsSelected(value)
  \/ \E i \in ToggleRows, value \in BOOLEAN : ToggleSelected(i, value)

\* The user's actions on the table and its pagination, sorting aside.
TableStep == PageStep \/ SelectStep

\* The user's clicks on the sortable headers.
SortStep == \E c \in SortColumns : ToggleSorting(c)

Next == LoadStep \/ TimerStep \/ TableStep \/ SortStep

\* The whole page.
Spec == Init /\ [][Next]_vars

\* The loader alone: no action of the table reads or writes what it uses.
NextLoader == LoadStep \/ TimerStep
SpecLoader == Init /\ [][NextLoader]_vars

\* The table with the loader, without the progress animation and teardown,
\* which write only progress, intervals and mounted.
NextTable == LoadStep \/ TableStep
SpecTable == Init /\ [][NextTable]_vars

\* The table's view state (page, filter, sorting) with the loader, without
\* the row selection, which no sorting or page action reads.
NextView == LoadStep \/ PageStep \/ SortStep
SpecView == Init /\ [][NextView]_vars

\* The loader with the scheduling the event loop guarantees: a timer that is
\* due fires.
FairLoader == SpecLoader /\ WF_vars(TimeoutFire)

(***************************************************************************)
(* Steps of the loader, as seen from outside.                              *)
(***************************************************************************)
Fails(l) == l \in Pending /\ loads'[l] = "failed"
Resolves(l) == l \in Pending /\ loads'[l] = "ok"
Starts == Len(loads') = Len(loads) + 1

C2_LastResolvedWins ==
  [][\A l \in 1..MaxLoads :
       Resolves(l) => data' = Responses[lastResponse']]_vars

\* Two overlapping loads, the second resolved first, the first resolved last
\* with the short list, which is the list now held.
C2_Witness ==
  /\ loads = <<"ok", "ok">>
  /\ lastSettled = 1
  /\ lastResponse = 2
  /\ data = Arr(Short)

(***************************************************************************)
(* C3 as stated: a load that resolves successfully replaces the list by    *)
(* the `products` of its response and loading becomes false afterwards     *)
(* (after the completion timeout where there is a progress bar); as long   *)
(* as a load is pending the list is the one held when that load started.   *)
(***************************************************************************)
C3_ListHeldWhilePending ==
  /\ [][\A l \in 1..MaxLoads : Resolves(l) => data' = Responses[lastResponse']]_vars
  /\ [][\A l \in 1..MaxLoads :
          Resolves(l) => IF HasProgress THEN timeouts' > 0 ELSE loading' = FALSE]_vars
  /\ (timeouts > 0) ~> (loading = FALSE)
  /\ [](\A l \in Pending : data = startData[l])

(***************************************************************************)
(* C3 as amended: a load that resolves successfully replaces the list by   *)
(* the `products` of its response and loading becomes false afterwards     *)
(* (at once in part_000, when the completion timeout fires where there is  *)
(* a progress bar); starting a load leaves the list as it was, and while   *)
(* a load is pending the list changes only by another load resolving or by *)
(* randomize, never by a timer or a failure.                               *)
(***************************************************************************)
C3_SuccessReplacesList ==
  /\ [][\A l \in 1..MaxLoads : Resolves(l) => data' = Responses[lastResponse']]_vars
  /\ [][\A l \in 1..MaxLoads :
          Resolves(l) => IF HasProgress THEN timeouts' > 0 ELSE loading' = FALSE]_vars
  /\ (timeouts > 0) ~> (loading = FALSE)
  /\ [][Starts => data' = data]_vars
  /\ [][(Pending # {} /\ data' # data) =>
          \/ \E l \in 1..MaxLoads : Resolves(l)
          \/ /\ HasProgress
             /\ data.defined
             /\ data'.items \in Shuffles(data.items)]_vars

\* The first load delivered the full list and its completion timeout has
\* fired: the list is shown and loading is false.
C3_Witness ==
  /\ variant = "paged"
  /\ loads = <<"ok">>
  /\ data = Arr(Full)
  /\ progress = ProgressDone
  /\ timeouts = 0
  /\ ~loading

(***************************************************************************)
(* C4: whenever the list is a non-empty array, the offset of the current   *)
(* page lies inside it: (currentPage - 1) * itemsPerPage <= rowCount - 1.  *)
(***************************************************************************)
C4_PageOffsetInRows ==
  (data.defined /\ Len(data.items) > 0) =>
    (currentPage - 1) * itemsPerPage <= Len(data.items) - 1

\* Every variable but currentPage is left as it was.
OnlyPageWritten ==
  UNCHANGED <<variant, mounted, data, loading, progress, progressInterval,
              intervals, timeouts, pagination, filterValue, rowSelection, loads,
              startData, lastResponse, lastSettled, toasts, consoleErrors,
                 sorting>>

\* The page C5 says changePage(p) leaves current.
C5_Expected(p) ==
  IF data.defined /\ 1 <= p /\ p <= CeilDiv(Len(data.items), itemsPerPage)
    THEN p
    ELSE currentPage

(***************************************************************************)
(* C5: in every reachable state and for every p, changePage(p) can be      *)
(* called, makes p the current page when 1 <= p <= totalPages and leaves   *)
(* the current page alone otherwise (every p when the list is empty), and  *)
(* writes nothing but the current page.                                    *)
(***************************************************************************)
C5_ChangePageContract ==
  (mounted /\ variant = "paged") =>
    \A p \in PageRequests :
      /\ ENABLED ChangePage(p)
      /\ ~ENABLED (ChangePage(p) /\ currentPage' # C5_Expected(p))
      /\ ~ENABLED (ChangePage(p) /\ ~OnlyPageWritten)

\* Page 3 of 3 has been reached by page requests.
C5_Witness ==
  /\ variant = "paged"
  /\ data = Arr(Full)
  /\ totalPages = 3
  /\ currentPage = 3

(***************************************************************************)
(* C6 as stated: a page request never selects a slice outside the list,    *)
(* and a request for a page beyond the last one makes the last page the    *)
(* current one, whatever the current page was.                             *)
(***************************************************************************)
C6_BeyondLastClamps ==
  (data.defined /\ totalPages >= 1) =>
    \A p \in PageRequests :
      p > totalPages => ~ENABLED (ChangePage(p) /\ currentPage' # totalPages)

(***************************************************************************)
(* C6 as amended: a page request never selects a slice outside the list    *)
(* (a page it makes current is one of 1..totalPages and has rows; a page   *)
(* index the pagination widget sets lies inside the filtered rows), and a  *)
(* request for a page beyond the last one is a no-op: the current page     *)
(* stays what it was.                                                      *)
(***************************************************************************)
C6_BeyondLastIsNoOp ==
  /\ data.defined =>
       \A p \in PageRequests :
         /\ p > totalPages =>
              ~ENABLED (ChangePage(p) /\ currentPage' # currentPage)
         /\ ~ENABLED (/\ ChangePage(p)
                      /\ currentPage' # currentPage
                      /\ ~(/\ currentPage' \in 1..totalPages
                           /\ PageSlice(data.items, currentPage') # <<>>))
  /\ \A p \in OfferedPages :
       ~ENABLED (/\ SetPageIndex(p)
                 /\ pagination' * itemsPerPage >= Max(1, totalFilteredRows))

\* Page 2 of 3 is current: a request for page 4 or 5 is beyond the last page
\* and the last page is not the current one.
C6_Witness ==
  /\ variant = "paged"
  /\ data.defined
  /\ totalPages = 3
  /\ currentPage = 2

\* Positions (p-1)*s+1 .. min(p*s, n) of list s, in list order.
Positions(s, p) ==
  [k \in 1..(Min(p * itemsPerPage, Len(s)) - (p - 1) * itemsPerPage) |->
     s[(p - 1) * itemsPerPage + k]]

(***************************************************************************)
(* C7: for the list held (n products) and every page p of it, the rows of  *)
(* page p are the products at positions (p-1)*s+1 .. min(p*s, n), in list  *)
(* order; the last page has n - (ceil(n/s)-1)*s rows; the table shows the  *)
(* rows of the current page when no filter is set.  With n = 25, s = 10:   *)
(* page 1 is rows 1-10, page 3 is rows 21-25, and a request for page 4     *)
(* made on page 3 leaves page 3 current.                                   *)
(***************************************************************************)
C7_PageRows ==
  (variant = "paged" /\ data.defined) =>
    LET n == Len(data.items) IN
    /\ \A p \in 1..totalPages : PageSlice(data.items, p) = Positions(data.items, p)
    /\ totalPages >= 1 =>
         Len(PageSlice(data.items, totalPages)) = n - (totalPages - 1) * itemsPerPage
    /\ (currentPage \in 1..totalPages /\ filterValue = <<>>) =>
         VisibleProducts = Positions(data.items, currentPage)
    /\ data = Arr(Full) =>
         /\ PageSlice(data.items, 1) = <<1, 2, 3, 4, 5, 6, 7, 8, 9, 10>>
         /\ PageSlice(data.items, 3) = <<21, 22, 23, 24, 25>>
         /\ currentPage = 3 => ChangePageTarget(4) = 3

\* 25 products, page 3 current: the five rows 21-25 are shown.
C7_Witness ==
  /\ variant = "paged"
  /\ data = Arr(Full)
  /\ currentPage = 3
  /\ ~loading
  /\ VisibleProducts = <<21, 22, 23, 24, 25>>

\* The products of list s whose title passes filter f, in list order.
FilterProducts(s, f) == LET Keep(id) == TitleMatches(id, f) IN SelectSeq(s, Keep)

(***************************************************************************)
(* C8: the rows shown are the page slice of the filtered list: the title   *)
(* filter is applied to the whole loaded list and the slice of the current *)
(* page is taken from the result.                                          *)
(***************************************************************************)
C8_FilterBeforeSlice ==
  (TableMounted /\ data.defined /\ variant # "plain") =>
    VisibleProducts =
      PageSlice(FilterProducts(data.items, filterValue),
                IF variant = "paged" THEN currentPage ELSE pagination + 1)

(***************************************************************************)
(* C9: the selection is a set of products of the loaded list that a page   *)
(* change leaves alone: a step that changes the current page changes no    *)
(* product from selected to unselected or back.                            *)
(***************************************************************************)
C9_SelectionSurvivesPageChange ==
  [][/\ (currentPage' # currentPage) => SelectedProducts' = SelectedProducts
     /\ data'.defined => SelectedProducts' \subseteq Range(data'.items)]_vars

(***************************************************************************)
(* C10: once every started load has settled no interval is scheduled any   *)
(* more, and none is scheduled after the page has been torn down.          *)
(***************************************************************************)
C10_NoIntervalLeft ==
  /\ Pending = {} => intervals = {}
  /\ ~mounted => intervals = {}

\* A firing of an interval callback: the only step that neither starts nor
\* settles a load and writes progress.
Ticks == \E i \in intervals : IntervalTick(i)

(***************************************************************************)
(* C11: a load start sets progress to 0; while a fetch is unresolved       *)
(* progress is at most 95 and a timer tick never lowers it; progress       *)
(* becomes 100 only in a step in which a fetch resolves, and a timer tick  *)
(* leaves a progress of 100 alone.                                         *)
(***************************************************************************)
C11_ProgressProtocol ==
  /\ [](HasProgress /\ Pending # {} => progress <= ProgressCap)
  /\ [][/\ HasProgress /\ Starts => progress' = 0
        /\ Ticks => progress' >= progress
        /\ progress' = ProgressDone /\ progress # ProgressDone
             => \E l \in Pending : Resolves(l)
        /\ Ticks /\ progress = ProgressDone => progress' = ProgressDone]_vars

(***************************************************************************)
(* C12: in every reachable state in which a started fetch is unresolved    *)
(* the loading flag is set, whatever happened since the fetch started.     *)
(***************************************************************************)
C12_LoadingWhilePending == Pending # {} => loading

\* The sorting state in which column c alone is sorted in direction dir.
SortedBy(c, dir) == <<[id |-> c, desc |-> dir = "desc"]>>

(***************************************************************************)
(* C13 as stated: a click on a sortable header moves that column's sort    *)
(* state none -> ascending -> descending -> none, for title, price and     *)
(* rating alike; a click on a column that is not the sort column makes it  *)
(* the sort column, ascending.                                             *)
(***************************************************************************)
C13_AscendingFirst ==
  [][\A c \in SortColumns :
       ToggleSorting(c) =>
         sorting' = CASE getIsSorted(c) = "false" -> SortedBy(c, "asc")
                      [] getIsSorted(c) = "asc"   -> SortedBy(c, "desc")
                      [] OTHER                    -> <<>>]_vars

(***************************************************************************)
(* C13 amended: a click on a sortable header moves that column's sort      *)
(* state none -> first -> other -> none, where the first direction is      *)
(* ascending for title while the table has a row and descending for price  *)
(* and rating (and for title in a table without rows); a click on a column *)
(* that is not the sort column makes it the only sort column, in its first *)
(* direction; a click on a column sorted in the direction that is not its  *)
(* first one removes the sorting.                                          *)
(***************************************************************************)
C13_FirstDirectionByType ==
  [][\A c \in SortColumns :
       ToggleSorting(c) =>
         LET first == IF c = "title" /\ totalFilteredRows > 0
                        THEN "asc" ELSE "desc"
             other == IF first = "asc" THEN "desc" ELSE "asc"
         IN sorting' = CASE getIsSorted(c) = "false" -> SortedBy(c, first)
                         [] getIsSorted(c) = first   -> SortedBy(c, other)
                         [] OTHER                    -> <<>>]_vars

\* The second click of the cycle on a number column has acted.
C13_Witness == sorting = SortedBy("price", "asc") /\ totalFilteredRows > 0

\* Every value occurs as often in a as in b.
SameMultiset(a, b) ==
  \A x \in Range(a) \cup Range(b) :
    Cardinality({i \in 1..Len(a) : a[i] = x})
      = Cardinality({i \in 1..Len(b) : b[i] = x})

ViewDefaults ==
  /\ currentPage = 1
  /\ pagination = 0
  /\ itemsPerPage = 10
  /\ data = Arr(<<>>)
  /\ loading = TRUE

(***************************************************************************)
(* C15 as stated: the view state starts with its defaults, and afterwards  *)
(* the current page (currentPage, or the page index of the table that      *)
(* paginates) changes only in a page-navigation step: not when a load      *)
(* starts, completes or fails, and not on randomize.                       *)
(***************************************************************************)
C15_OnlyNavigationMovesPage ==
  /\ ViewDefaults
  /\ [][currentPage' # currentPage \/ pagination' # pagination =>
          \/ \E page \in PageRequests : ChangePage(page)
          \/ \E p \in OfferedPages : SetPageIndex(p)]_vars

(***************************************************************************)
(* C15 amended: the view state starts with its defaults.  currentPage      *)
(* changes only in a changePage step.  The page index of the table that    *)
(* paginates changes only in a setPageIndex step or by returning to 0 when *)
(* the filter or the sorting changes or the list is replaced while the     *)
(* table is displayed.  Starting or failing a load and randomize change    *)
(* neither; a completing load changes at most the page index, as said.     *)
(***************************************************************************)
C15_PageResetOnlyByTable ==
  /\ ViewDefaults
  /\ [][/\ currentPage' # currentPage =>
             \E page \in PageRequests : ChangePage(page)
        /\ pagination' # pagination =>
             \/ \E p \in OfferedPages : SetPageIndex(p)
             \/ /\ pagination' = 0
                /\ variant = "tanstack"
                /\ TableMounted
                /\ \/ \E f \in FilterInputs : SetFilterValue(f)
                   \/ \E c \in SortColumns : ToggleSorting(c)
                   \/ \E l \in Pending : Resolves(l)
        /\ Starts \/ Randomize \/ (\E l \in Pending : Fails(l)) =>
             currentPage' = currentPage /\ pagination' = pagination
        /\ (\E l \in Pending : Resolves(l)) =>
             /\ currentPage' = currentPage
             /\ pagination' = IF variant = "tanstack" /\ ~loading
                                THEN 0 ELSE pagination]_vars

\* A reload has completed with a shorter list and the page is still 3.
C15_Witness ==
  /\ currentPage = 3
  /\ loads = <<"ok", "ok">>
  /\ data = Arr(Short)

(***************************************************************************)
(* C16: in every reachable state of the page with the Previous and Next    *)
(* buttons, Previous is disabled exactly when page currentPage - 1 does    *)
(* not exist and Next exactly when page currentPage + 1 does not exist     *)
(* (the empty list has no pages); a click on an enabled button moves the   *)
(* current page by exactly one; on every page before the last, Next leads  *)
(* to the following page.                                                  *)
(***************************************************************************)
C16_ButtonsAgreeWithChangePage ==
  variant = "paged" /\ data.defined =>
    /\ PreviousDisabled <=> ~(currentPage - 1 \in 1..totalPages)
    /\ NextDisabled <=> ~(currentPage + 1 \in 1..totalPages)
    /\ ~ENABLED (ClickPrevious /\ currentPage' # currentPage - 1)
    /\ ~ENABLED (ClickNext /\ currentPage' # currentPage + 1)
    /\ currentPage \in 1..(totalPages - 1) =>
         ENABLED (ClickNext /\ currentPage' = currentPage + 1)

(***************************************************************************)
(* C17: in every reachable state the stored product list is a sequence of  *)
(* products (possibly empty), never undefined, whatever a load answered.   *)
(***************************************************************************)
C17_ListAlwaysDefined == data.defined

====
